---- MODULE Spec2Model ----
(***************************************************************************)
(* Model of the Flomo & Obsidian Quick Memo popup: popup.js (the           *)
(* orchestrator and its handlers) and flomoAPI.js (the two clients).       *)
(*                                                                         *)
(* Text is a sequence of one-character strings, so that trim() is a real   *)
(* conversion.  A message is a sequence of text fragments, the pieces of   *)
(* the template literal that builds it.                                    *)
(***************************************************************************)
EXTENDS Naturals, Sequences, FiniteSets, TLC

\* ------------------------------------------------------------- bounds
\* Submissions that may be in flight together.
MaxInFlight == 2
\* storage.set calls, and test-connection requests, that may be pending together.
MaxPending == 1
\* User events (typing, edits, toggles, triggers, test clicks) of one run.
MaxEvents == 3

\* --------------------------------------------------------------- text
Space == " "

RECURSIVE TrimStart(_)
TrimStart(s) ==
    IF s # <<>> /\ Head(s) = Space THEN TrimStart(Tail(s)) ELSE s

RECURSIVE TrimEnd(_)
TrimEnd(s) ==
    IF s # <<>> /\ s[Len(s)] = Space THEN TrimEnd(SubSeq(s, 1, Len(s) - 1)) ELSE s

\* String.prototype.trim
Trim(s) == TrimEnd(TrimStart(s))

\* The value of a property that was never set.
Undefined == <<"undefined">>

\* JavaScript truthiness of a string-or-undefined value.
Truthy(v) == v # Undefined /\ v # <<>>

\* What the user may type into the note input.
NoteInputs == { <<>>, <<" ">>, <<"a">>, <<" ", "b">> }

\* What the user may type into the three settings fields.
UrlInputs == { <<>>, <<" ", "v">> }
VaultInputs == { <<>>, <<"x", " ">> }
TokenInputs == { <<" ">>, <<"t">> }

\* ------------------------------------------------------------ outcomes
\* {success, message}: what every client operation resolves to.
Outcome(success, message) == [success |-> success, message |-> message]

\* Placeholders of an operation that issued no request / has no outcome yet.
NoRequest == [method |-> "", url |-> <<>>, auth |-> <<>>, path |-> <<>>, content |-> <<>>]
NoOutcome == [success |-> FALSE, message |-> <<>>]

\* An operation a submission did not build (its destination is not selected).
NotStarted == [st |-> "none", fetches |-> 0, req |-> NoRequest, outcome |-> NoOutcome]
\* An operation that returned without calling fetch.
Returned(outcome) == [st |-> "settled", fetches |-> 0, req |-> NoRequest, outcome |-> outcome]
\* An operation suspended at await fetch(...).
Fetching(req) == [st |-> "pending", fetches |-> 1, req |-> req, outcome |-> NoOutcome]
\* An operation whose fetch settled.
Settled(op, outcome) == [op EXCEPT !.st = "settled", !.outcome = outcome]

\* What fetch can settle with: a response, or a rejection (no response).
\* body: "json-message" ({"message": "m"}), "json-plain" (an object without a
\* message field), "json-null", "text" (not JSON), "unreadable" (reading the
\* body fails).
Response(status, statusText, body) ==
    [kind |-> "response", ok |-> (status >= 200 /\ status <= 299),
     status |-> status, statusText |-> statusText, body |-> body,
     error |-> <<"body stream error">>]
FetchError == [kind |-> "error", ok |-> FALSE, status |-> 0, statusText |-> <<>>,
               body |-> "none", error |-> <<"Failed to fetch">>]

\* response.text(): the raw text of each kind of body.
BodyText(body) ==
    CASE body = "json-message" -> <<"{message: m}">>
      [] body = "json-plain"   -> <<"{}">>
      [] body = "json-null"    -> <<"null">>
      [] OTHER                 -> <<"raw text">>

\* The responses the environment of the checked runs draws from.
FlomoResponses ==
    { Response(200, <<"OK">>, "json-plain"),
      Response(500, <<"Internal Server Error">>, "text"),
      FetchError }
ObsidianResponses ==
    { Response(200, <<"OK">>, "json-plain"),
      Response(404, <<"Not Found">>, "text"),
      FetchError }

\* ----------------------------------------------------------- FlomoAPI
FlomoAPI(api_url) == [api_url |-> api_url]

\* Mutant: sendToFlomo without its configuration guard.
FlomoSendStartUnguarded(api, content) ==
    Fetching([method |-> "POST", url |-> api.api_url, auth |-> <<>>,
              path |-> <<>>, content |-> content])

\* sendToFlomo up to its first await: the configuration guard, then fetch.
FlomoSendStart(api, content) ==
    IF ~Truthy(api.api_url)
    THEN Returned(Outcome(FALSE, <<"Flomo API URL is not set.">>))
    ELSE Fetching([method |-> "POST", url |-> api.api_url, auth |-> <<>>,
                   path |-> <<>>, content |-> content])

\* response.json().catch(() => null), then errorData ? errorData.message : ...
FlomoErrorDetail(resp) ==
    CASE resp.body = "json-message" -> <<"m">>
      [] resp.body = "json-plain"   -> Undefined
      [] OTHER                      -> <<"HTTP Error: ", ToString(resp.status)>>

\* sendToFlomo from the settling of its fetch to its return.
FlomoSendOutcome(resp) ==
    IF resp.kind = "error"
    THEN Outcome(FALSE, <<"Network or other error: ">> \o resp.error)
    ELSE IF resp.ok
         THEN Outcome(TRUE, <<"Note sent to Flomo successfully.">>)
         ELSE Outcome(FALSE, <<"Failed to send to Flomo. ">> \o FlomoErrorDetail(resp))

\* The canned note of FlomoAPI.testConnection (tag, text, timestamp).
FlomoTestContent == <<"#flomo-obsidian-extension", "test message", "timestamp">>

\* ------------------------------------------------------ ObsidianWriter
Port == <<"27123">>

ObsidianWriter(vaultName, apiToken) ==
    [vaultName |-> IF Truthy(vaultName) THEN Trim(vaultName) ELSE <<>>,
     apiToken |-> apiToken,
     port |-> Port,
     apiUrl |-> <<"http://127.0.0.1:">> \o Port]

\* String(n).padStart(2, '0')
Pad2(n) == IF n < 10 THEN <<"0", ToString(n)>> ELSE <<ToString(n)>>

\* The local times a send may happen at: [year, month (0-based), day, hours,
\* minutes, seconds, ms].
Clock ==
    { [year |-> 2024, month |-> 0, day |-> 5, hours |-> 9, minutes |-> 3,
       seconds |-> 7, ms |-> 120] }

\* Mutant: the filename carries the milliseconds.
generateFileNameMs(now) ==
    <<ToString(now.year), "-">> \o Pad2(now.month + 1) \o <<"-">> \o Pad2(now.day)
        \o <<"_">> \o Pad2(now.hours) \o <<"-">> \o Pad2(now.minutes) \o <<"-">>
        \o Pad2(now.seconds) \o <<"-", ToString(now.ms), ".md">>

generateFileName(now) ==
    <<ToString(now.year), "-">> \o Pad2(now.month + 1) \o <<"-">> \o Pad2(now.day)
        \o <<"_">> \o Pad2(now.hours) \o <<"-">> \o Pad2(now.minutes) \o <<"-">>
        \o Pad2(now.seconds) \o <<".md">>

\* Mutant: the guard forgets the token.
ObsidianConfigMissingVaultOnly(api) == ~Truthy(api.vaultName)

ObsidianConfigMissing(api) == ~Truthy(api.vaultName) \/ ~Truthy(api.apiToken)

\* Mutant: the vault name is put in front of the path twice.
ObsidianSendStartDoublePath(api, content, now) ==
    IF ObsidianConfigMissing(api)
    THEN Returned(Outcome(FALSE, <<"Obsidian Vault Name or API Token is not set.">>))
    ELSE Fetching([method |-> "POST", url |-> api.apiUrl \o <<"/notes">>,
                   auth |-> <<"Bearer ">> \o api.apiToken,
                   path |-> api.vaultName \o <<"/">> \o api.vaultName \o <<"/">>
                               \o generateFileName(now),
                   content |-> content])

\* sendToObsidian up to its first await.
ObsidianSendStart(api, content, now) ==
    IF ObsidianConfigMissing(api)
    THEN Returned(Outcome(FALSE, <<"Obsidian Vault Name or API Token is not set.">>))
    ELSE Fetching([method |-> "POST", url |-> api.apiUrl \o <<"/notes">>,
                   auth |-> <<"Bearer ">> \o api.apiToken,
                   path |-> api.vaultName \o <<"/">> \o generateFileName(now),
                   content |-> content])

\* sendToObsidian from the settling of its fetch to its return.  fileName is
\* the local of the suspended call.
ObsidianSendOutcome(resp, fileName) ==
    IF resp.kind = "error" \/ (~resp.ok /\ resp.body = "unreadable")
    THEN Outcome(FALSE, <<"Network or other error: ">> \o resp.error)
    ELSE IF resp.ok
         THEN Outcome(TRUE, <<"Note '">> \o fileName
                             \o <<"' created in Obsidian successfully.">>)
         ELSE Outcome(FALSE, <<"Failed to create note in Obsidian. HTTP ",
                               ToString(resp.status), ": ">> \o BodyText(resp.body))

\* ObsidianWriter.testConnection up to its first await.
ObsidianTestStart(api) ==
    IF ObsidianConfigMissing(api)
    THEN Returned(Outcome(FALSE, <<"Obsidian Vault Name or API Token is not set.">>))
    ELSE Fetching([method |-> "HEAD", url |-> api.apiUrl \o <<"/vault/">>,
                   auth |-> <<"Bearer ">> \o api.apiToken,
                   path |-> <<>>, content |-> <<>>])

\* Mutant: the probe has no case for 401.
ObsidianTestOutcomeNo401(resp, port) ==
    IF resp.kind = "error"
    THEN Outcome(FALSE, <<"Network error. Is Obsidian running and the API plugin enabled on port ">>
                         \o port \o <<"?">>)
    ELSE IF resp.ok
         THEN Outcome(TRUE, <<"Obsidian API connection successful.">>)
         ELSE IF resp.status = 404
              THEN Outcome(FALSE, <<"Connection failed: Not Found. Check if the 'Local REST API' plugin is enabled in Obsidian.">>)
              ELSE Outcome(FALSE, <<"Obsidian API connection failed. HTTP ",
                                    ToString(resp.status), ": ">> \o resp.statusText)

\* ObsidianWriter.testConnection from the settling of its fetch to its return.
ObsidianTestOutcome(resp, port) ==
    IF resp.kind = "error"
    THEN Outcome(FALSE, <<"Network error. Is Obsidian running and the API plugin enabled on port ">>
                         \o port \o <<"?">>)
    ELSE IF resp.ok
         THEN Outcome(TRUE, <<"Obsidian API connection successful.">>)
         ELSE IF resp.status = 401
              THEN Outcome(FALSE, <<"Connection failed: Unauthorized. Check your API Token.">>)
              ELSE IF resp.status = 404
                   THEN Outcome(FALSE, <<"Connection failed: Not Found. Check if the 'Local REST API' plugin is enabled in Obsidian.">>)
                   ELSE Outcome(FALSE, <<"Obsidian API connection failed. HTTP ",
                                         ToString(resp.status), ": ">> \o resp.statusText)


\* ---------------------------------------------------------- variables
VARIABLES
    memoContent,        \* elements.memoContent.value
    sendToFlomo,        \* elements.sendToFlomo.checked
    sendToObsidian,     \* elements.sendToObsidian.checked
    flomoUrlInput,      \* elements.flomoUrlInput.value
    obsidianVaultInput, \* elements.obsidianVaultInput.value
    obsidianTokenInput, \* elements.obsidianTokenInput.value
    submitButton,       \* [disabled, text] of elements.submitButton
    statusMessage,      \* [text, type] of elements.statusMessage
    resultBox,          \* [hidden, success, error] of elements.resultBox
    config,             \* state.config
    flomoAPI,           \* state.flomoAPI
    obsidianAPI,        \* state.obsidianAPI
    storage,            \* chrome.storage.local, the record under 'config'
    loadPc,             \* loadConfigAndSetup: "pending", "done" or "failed"
    saves,              \* pending chrome.storage.local.set calls, oldest first
    subs,               \* submitNote calls suspended at await Promise.all
    tests,              \* test-connection handlers suspended at their await
    uncaught,           \* a handler ended with an uncaught exception
    events,             \* user events so far
    ev                  \* what the last step did

vars == << memoContent, sendToFlomo, sendToObsidian, flomoUrlInput,
           obsidianVaultInput, obsidianTokenInput, submitButton, statusMessage,
           resultBox, config, flomoAPI, obsidianAPI, storage, loadPc, saves,
           subs, tests, uncaught, events, ev >>

\* ------------------------------------------------------ configuration
\* state.config is {} until loaded or saved: a record some of whose fields
\* may be absent.
EmptyObject == <<>>
Has(obj, k) == k \in DOMAIN obj
\* obj.k, undefined when absent (string fields)
Prop(obj, k) == IF Has(obj, k) THEN obj[k] ELSE Undefined
\* obj.k || ''
OrEmpty(obj, k) == IF Has(obj, k) /\ Truthy(obj[k]) THEN obj[k] ELSE <<>>
\* Mutant: obj.k || d, which loses a stored false.
OrDefaultFalsy(obj, k, d) == IF Has(obj, k) /\ obj[k] = TRUE THEN obj[k] ELSE d

\* obj.k ?? d
OrDefault(obj, k, d) == IF Has(obj, k) THEN obj[k] ELSE d

Config(url, vault, token, toFlomo, toObsidian) ==
    [flomoUrl |-> url, obsidianVault |-> vault, obsidianToken |-> token,
     sendToFlomo |-> toFlomo, sendToObsidian |-> toObsidian]

\* The record saveConfig builds from the five inputs.
ConfigFromInputs(url, vault, token, toFlomo, toObsidian) ==
    Config(Trim(url), Trim(vault), Trim(token), toFlomo, toObsidian)

\* What chrome.storage.local may hold when the popup opens: nothing, or a
\* record an earlier saveConfig wrote.
Absent == [absent |-> TRUE]
StoredConfigs ==
    { Absent,
      Config(<<"u">>, <<"w">>, <<"t">>, TRUE, TRUE),
      Config(<<"u">>, <<>>, <<>>, TRUE, TRUE),
      Config(<<>>, <<"w">>, <<"t">>, FALSE, FALSE) }

\* state.flomoAPI / state.obsidianAPI before reinitializeApis has run.
Null == [null |-> TRUE]
IsNull(api) == Has(api, "null")

\* reinitializeApis
NewFlomoAPI(cfg) == FlomoAPI(Prop(cfg, "flomoUrl"))
NewObsidianAPI(cfg) == ObsidianWriter(Prop(cfg, "obsidianVault"), Prop(cfg, "obsidianToken"))

\* --------------------------------------------------------------- display
Status(text, type) == [text |-> text, type |-> type]

\* updateStatus hides the result box and leaves its content.
Hide(box) == [box EXCEPT !.hidden = TRUE]

Block(class, messages) == [class |-> class, messages |-> messages]

\* Mutant: the error block replaces the success block.
ResultBlocksElse(successMsgs, errorMsgs) ==
    IF Len(errorMsgs) > 0 THEN <<Block("error", errorMsgs)>>
    ELSE IF Len(successMsgs) > 0 THEN <<Block("success", successMsgs)>> ELSE <<>>

\* showResult: one block per non-empty list, success first.
ResultBlocks(successMsgs, errorMsgs) ==
    (IF Len(successMsgs) > 0 THEN <<Block("success", successMsgs)>> ELSE <<>>)
    \o (IF Len(errorMsgs) > 0 THEN <<Block("error", errorMsgs)>> ELSE <<>>)

\* Mutant: with both destinations selected the label names the webhook only.
ButtonTextFlomoFirst(toFlomo, toObsidian) ==
    IF toFlomo THEN <<"Submit to Flomo">>
    ELSE IF toObsidian THEN <<"Submit to Obsidian">>
    ELSE <<"Submit">>

\* updateSubmitButtonState
ButtonText(toFlomo, toObsidian) ==
    IF toFlomo /\ toObsidian THEN <<"Submit to Both">>
    ELSE IF toFlomo THEN <<"Submit to Flomo">>
    ELSE IF toObsidian THEN <<"Submit to Obsidian">>
    ELSE <<"Submit">>

ButtonDisabled(toFlomo, toObsidian) == ~toFlomo /\ ~toObsidian

updateSubmitButtonState(toFlomo, toObsidian) ==
    [disabled |-> ButtonDisabled(toFlomo, toObsidian),
     text |-> ButtonText(toFlomo, toObsidian)]

\* ---------------------------------------------------------- submissions
\* A submitNote call: the locals it holds across await Promise.all.
Submission(content, toFlomo, toObsidian, flomo, obsidian, fileName) ==
    [content |-> content, toFlomo |-> toFlomo, toObsidian |-> toObsidian,
     flomo |-> flomo, obsidian |-> obsidian, fileName |-> fileName]

NoSubmission == Submission(<<>>, FALSE, FALSE, NotStarted, NotStarted, <<>>)

\* submissionPromises, in push order.
Promises(sub) ==
    (IF sub.toFlomo THEN <<sub.flomo>> ELSE <<>>)
    \o (IF sub.toObsidian THEN <<sub.obsidian>> ELSE <<>>)

\* Mutant: the wait ends at the first failure.
AllSettledOrOneFailed(sub) ==
    \/ \A i \in 1..Len(Promises(sub)) : Promises(sub)[i].st = "settled"
    \/ \E i \in 1..Len(Promises(sub)) :
          Promises(sub)[i].st = "settled" /\ ~Promises(sub)[i].outcome.success

\* Promise.all has resolved: every pushed promise has settled.
AllSettled(sub) == \A i \in 1..Len(Promises(sub)) : Promises(sub)[i].st = "settled"

\* settledResults.filter(r => r.success == wanted).map(r => r.message)
Messages(ops, wanted) ==
    LET F[i \in 0..Len(ops)] ==
            IF i = 0 THEN <<>>
            ELSE IF ops[i].outcome.success = wanted
                 THEN Append(F[i - 1], ops[i].outcome.message)
                 ELSE F[i - 1]
    IN F[Len(ops)]

successMessages(sub) == Messages(Promises(sub), TRUE)
errorMessages(sub) == Messages(Promises(sub), FALSE)

\* Mutant: the input is cleared whatever the outcomes.
MemoAfterAlwaysCleared(sub, memo) == <<>>

\* Mutant: the input is cleared only while it still holds the submitted note.
MemoAfterIfUnchanged(sub, memo) ==
    IF Len(errorMessages(sub)) = 0 /\ Trim(memo) = sub.content THEN <<>> ELSE memo

\* The note input after a completed submission.
MemoAfter(sub, memo) == IF Len(errorMessages(sub)) = 0 THEN <<>> ELSE memo

\* What the last step did, for the properties: its kind, whether it was a
\* submit trigger, the submission (or test operation) it concerns and, for a
\* completion, what the note input held when it ran.
Event(kind, trigger, sub) ==
    [kind |-> kind, trigger |-> trigger, sub |-> sub, memo |-> <<>>]
Other == Event("other", FALSE, NoSubmission)

\* ------------------------------------------------------------------ Init
\* The state when the DOMContentLoaded handler returns: loadConfigAndSetup is
\* suspended at its storage read and the listeners are attached.  The two
\* checkboxes hold whatever the page gives them.
Init ==
    /\ memoContent = <<>>
    /\ sendToFlomo \in BOOLEAN
    /\ sendToObsidian \in BOOLEAN
    /\ flomoUrlInput = <<>>
    /\ obsidianVaultInput = <<>>
    /\ obsidianTokenInput = <<>>
    /\ submitButton = [disabled |-> FALSE, text |-> <<"Submit">>]
    /\ statusMessage = Status(<<>>, "info")
    /\ resultBox = [hidden |-> TRUE, blocks |-> <<>>]
    /\ config = EmptyObject
    /\ flomoAPI = Null
    /\ obsidianAPI = Null
    /\ storage \in StoredConfigs
    /\ loadPc = "pending"
    /\ saves = <<>>
    /\ subs = <<>>
    /\ tests = <<>>
    /\ uncaught = FALSE
    /\ events = 0
    /\ ev = Event("init", FALSE, NoSubmission)

\* ------------------------------------------------------ loadConfigAndSetup
\* The storage read resolves: the rest of the try block runs.
LoadResolve ==
    /\ loadPc = "pending"
    /\ LET cfg == IF storage = Absent THEN EmptyObject ELSE storage
       IN /\ config' = cfg
          /\ flomoUrlInput' = OrEmpty(cfg, "flomoUrl")
          /\ obsidianVaultInput' = OrEmpty(cfg, "obsidianVault")
          /\ obsidianTokenInput' = OrEmpty(cfg, "obsidianToken")
          /\ sendToFlomo' = OrDefault(cfg, "sendToFlomo", TRUE)
          /\ sendToObsidian' = OrDefault(cfg, "sendToObsidian", FALSE)
          /\ flomoAPI' = NewFlomoAPI(cfg)
          /\ obsidianAPI' = NewObsidianAPI(cfg)
          /\ submitButton' = updateSubmitButtonState(sendToFlomo', sendToObsidian')
    /\ loadPc' = "done"
    /\ ev' = Other
    /\ UNCHANGED << memoContent, statusMessage, resultBox, storage, saves, subs,
                    tests, uncaught, events >>

\* The storage read rejects: the catch block runs.
LoadReject ==
    /\ loadPc = "pending"
    /\ statusMessage' = Status(<<"Error loading configuration.">>, "error")
    /\ resultBox' = Hide(resultBox)
    /\ loadPc' = "failed"
    /\ ev' = Other
    /\ UNCHANGED << memoContent, sendToFlomo, sendToObsidian, flomoUrlInput,
                    obsidianVaultInput, obsidianTokenInput, submitButton, config,
                    flomoAPI, obsidianAPI, storage, saves, subs, tests, uncaught,
                    events >>

\* -------------------------------------------------------------- saveConfig
\* saveConfig up to its await, after a change event: state.config is replaced
\* and the write is handed to storage.
SaveStart(url, vault, token, toFlomo, toObsidian) ==
    /\ config' = ConfigFromInputs(url, vault, token, toFlomo, toObsidian)
    /\ saves' = Append(saves, config')

\* The user commits a new value of a settings field (change event).
EditField ==
    /\ events < MaxEvents
    /\ Len(saves) < MaxPending
    /\ \/ \E v \in UrlInputs \ {flomoUrlInput} :
            /\ flomoUrlInput' = v
            /\ UNCHANGED << obsidianVaultInput, obsidianTokenInput >>
       \/ \E v \in VaultInputs \ {obsidianVaultInput} :
            /\ obsidianVaultInput' = v
            /\ UNCHANGED << flomoUrlInput, obsidianTokenInput >>
       \/ \E v \in TokenInputs \ {obsidianTokenInput} :
            /\ obsidianTokenInput' = v
            /\ UNCHANGED << flomoUrlInput, obsidianVaultInput >>
    /\ SaveStart(flomoUrlInput', obsidianVaultInput', obsidianTokenInput',
                 sendToFlomo, sendToObsidian)
    /\ events' = events + 1
    /\ ev' = Other
    /\ UNCHANGED << memoContent, sendToFlomo, sendToObsidian, submitButton,
                    statusMessage, resultBox, flomoAPI, obsidianAPI, storage,
                    loadPc, subs, tests, uncaught >>

\* The user toggles a destination checkbox: saveConfig, then
\* updateSubmitButtonState (the listeners in the order they were added).
ToggleDestination ==
    /\ events < MaxEvents
    /\ Len(saves) < MaxPending
    /\ \/ sendToFlomo' = ~sendToFlomo /\ UNCHANGED sendToObsidian
       \/ sendToObsidian' = ~sendToObsidian /\ UNCHANGED sendToFlomo
    /\ SaveStart(flomoUrlInput, obsidianVaultInput, obsidianTokenInput,
                 sendToFlomo', sendToObsidian')
    /\ submitButton' = updateSubmitButtonState(sendToFlomo', sendToObsidian')
    /\ events' = events + 1
    /\ ev' = Other
    /\ UNCHANGED << memoContent, flomoUrlInput, obsidianVaultInput,
                    obsidianTokenInput, statusMessage, resultBox, flomoAPI,
                    obsidianAPI, storage, loadPc, subs, tests, uncaught >>

\* The oldest pending write succeeds: the rest of saveConfig's try block.
SaveResolve ==
    /\ saves # <<>>
    /\ storage' = Head(saves)
    /\ saves' = Tail(saves)
    /\ flomoAPI' = NewFlomoAPI(config)
    /\ obsidianAPI' = NewObsidianAPI(config)
    /\ statusMessage' = Status(<<"Settings saved!">>, "success")
    /\ resultBox' = Hide(resultBox)
    /\ ev' = Other
    /\ UNCHANGED << memoContent, sendToFlomo, sendToObsidian, flomoUrlInput,
                    obsidianVaultInput, obsidianTokenInput, submitButton, config,
                    loadPc, subs, tests, uncaught, events >>

\* The oldest pending write fails: saveConfig's catch block.
SaveReject ==
    /\ saves # <<>>
    /\ saves' = Tail(saves)
    /\ statusMessage' = Status(<<"Error saving settings.">>, "error")
    /\ resultBox' = Hide(resultBox)
    /\ ev' = Other
    /\ UNCHANGED << memoContent, sendToFlomo, sendToObsidian, flomoUrlInput,
                    obsidianVaultInput, obsidianTokenInput, submitButton, config,
                    flomoAPI, obsidianAPI, storage, loadPc, subs, tests, uncaught,
                    events >>

\* The user types into the note input (no listener).
TypeNote ==
    /\ events < MaxEvents
    /\ \E v \in NoteInputs \ {memoContent} : memoContent' = v
    /\ events' = events + 1
    /\ ev' = Other
    /\ UNCHANGED << sendToFlomo, sendToObsidian, flomoUrlInput, obsidianVaultInput,
                    obsidianTokenInput, submitButton, statusMessage, resultBox,
                    config, flomoAPI, obsidianAPI, storage, loadPc, saves, subs,
                    tests, uncaught >>

\* -------------------------------------------------------------- submitNote
\* A validation failure: updateStatus and return.
Refuse(message, kind) ==
    /\ statusMessage' = Status(message, "error")
    /\ resultBox' = Hide(resultBox)
    /\ ev' = Event(kind, TRUE, NoSubmission)
    /\ UNCHANGED << memoContent, submitButton, subs, uncaught >>

\* The operations submitNote builds for the note: state.flomoAPI.sendToFlomo
\* and state.obsidianAPI.sendToObsidian, each run to its first await, in that
\* order.  Calling a method of a client that is still null throws.
FlomoThrows(toFlomo) == toFlomo /\ IsNull(flomoAPI)
ObsidianThrows(toFlomo, toObsidian) ==
    ~FlomoThrows(toFlomo) /\ toObsidian /\ IsNull(obsidianAPI)

\* Mutant: the webhook send is built from the URL field as it is now.
FlomoPromiseFromField(toFlomo, content) ==
    IF toFlomo /\ ~IsNull(flomoAPI)
    THEN FlomoSendStart(FlomoAPI(Trim(flomoUrlInput)), content)
    ELSE NotStarted

FlomoPromise(toFlomo, content) ==
    IF toFlomo /\ ~IsNull(flomoAPI)
    THEN FlomoSendStart(flomoAPI, content)
    ELSE NotStarted

ObsidianPromise(toFlomo, toObsidian, content, now) ==
    IF toObsidian /\ ~FlomoThrows(toFlomo) /\ ~IsNull(obsidianAPI)
    THEN ObsidianSendStart(obsidianAPI, content, now)
    ELSE NotStarted

Build(content, toFlomo, toObsidian, now) ==
    LET obsidian == ObsidianPromise(toFlomo, toObsidian, content, now)
    IN Submission(content, toFlomo, toObsidian, FlomoPromise(toFlomo, content),
                  obsidian,
                  IF obsidian.st = "pending" THEN generateFileName(now) ELSE <<>>)

\* submitNote after await Promise.all: the report, the input, the button.
\* type is the class the status line had when Promise.all resolved; trigger
\* tells a submission that never left the trigger's own task.
Finish(sub, type, trigger) ==
    /\ statusMessage' = Status(<<>>, type)
    /\ resultBox' = [hidden |-> FALSE,
                     blocks |-> ResultBlocks(successMessages(sub), errorMessages(sub))]
    /\ memoContent' = MemoAfter(sub, memoContent)
    /\ submitButton' = updateSubmitButtonState(sendToFlomo, sendToObsidian)
    /\ ev' = [Event("completed", trigger, sub) EXCEPT !.memo = memoContent]

\* submitNote from 'Submitting...' to the end of the handler's first run.
Dispatch(content) ==
    \E now \in Clock :
        LET sub == Build(content, sendToFlomo, sendToObsidian, now)
        IN IF FlomoThrows(sendToFlomo) \/ ObsidianThrows(sendToFlomo, sendToObsidian)
           THEN \* TypeError: the handler ends here, its promise rejected
                /\ statusMessage' = Status(<<"Submitting...">>, "loading")
                /\ resultBox' = Hide(resultBox)
                /\ submitButton' = [submitButton EXCEPT !.disabled = TRUE]
                /\ uncaught' = TRUE
                /\ ev' = Event("threw", TRUE, sub)
                /\ UNCHANGED << memoContent, subs >>
           ELSE IF AllSettled(sub)
           THEN \* no fetch was issued: Promise.all resolves in the same task
                /\ Finish(sub, "loading", TRUE)
                /\ UNCHANGED << subs, uncaught >>
           ELSE /\ statusMessage' = Status(<<"Submitting...">>, "loading")
                /\ resultBox' = Hide(resultBox)
                /\ submitButton' = [submitButton EXCEPT !.disabled = TRUE]
                /\ subs' = Append(subs, sub)
                /\ ev' = Event("started", TRUE, sub)
                /\ UNCHANGED << memoContent, uncaught >>

\* Mutant: the content is tested without trim().
submitNoteUntrimmed ==
    IF ~Truthy(memoContent)
    THEN Refuse(<<"Note content cannot be empty.">>, "refused-empty")
    ELSE IF ~sendToFlomo /\ ~sendToObsidian
         THEN Refuse(<<"Please select a destination (Flomo or Obsidian).">>,
                     "refused-destination")
         ELSE Dispatch(Trim(memoContent))

\* Mutant: the destination check is missing.
submitNoteAnyDestination ==
    IF ~Truthy(Trim(memoContent))
    THEN Refuse(<<"Note content cannot be empty.">>, "refused-empty")
    ELSE Dispatch(Trim(memoContent))

submitNote ==
    LET content == Trim(memoContent)
    IN IF ~Truthy(content)
       THEN Refuse(<<"Note content cannot be empty.">>, "refused-empty")
       ELSE IF ~sendToFlomo /\ ~sendToObsidian
            THEN Refuse(<<"Please select a destination (Flomo or Obsidian).">>,
                        "refused-destination")
            ELSE Dispatch(content)

\* A click on the submit button; a disabled button gets no click.
ClickSubmit ==
    /\ events < MaxEvents
    /\ Len(subs) < MaxInFlight
    /\ ~submitButton.disabled
    /\ submitNote
    /\ events' = events + 1
    /\ UNCHANGED << sendToFlomo, sendToObsidian, flomoUrlInput, obsidianVaultInput,
                    obsidianTokenInput, config, flomoAPI, obsidianAPI, storage,
                    loadPc, saves, tests >>

\* Ctrl+Enter in the note input.
CtrlEnter ==
    /\ events < MaxEvents
    /\ Len(subs) < MaxInFlight
    /\ submitNote
    /\ events' = events + 1
    /\ UNCHANGED << sendToFlomo, sendToObsidian, flomoUrlInput, obsidianVaultInput,
                    obsidianTokenInput, config, flomoAPI, obsidianAPI, storage,
                    loadPc, saves, tests >>

\* One fetch of submission i settles with outcome; when it was the last one
\* pending, Promise.all resolves and submitNote runs to its end.
Settle(i, sub) ==
    /\ IF AllSettled(sub)
       THEN /\ subs' = SubSeq(subs, 1, i - 1) \o SubSeq(subs, i + 1, Len(subs))
            /\ Finish(sub, statusMessage.type, FALSE)
       ELSE /\ subs' = [subs EXCEPT ![i] = sub]
            /\ ev' = Other
            /\ UNCHANGED << memoContent, submitButton, statusMessage, resultBox >>
    /\ UNCHANGED << sendToFlomo, sendToObsidian, flomoUrlInput, obsidianVaultInput,
                    obsidianTokenInput, config, flomoAPI, obsidianAPI, storage,
                    loadPc, saves, tests, uncaught, events >>

FlomoSettle ==
    \E i \in 1..Len(subs), resp \in FlomoResponses :
        /\ subs[i].flomo.st = "pending"
        /\ Settle(i, [subs[i] EXCEPT !.flomo = Settled(@, FlomoSendOutcome(resp))])

ObsidianSettle ==
    \E i \in 1..Len(subs), resp \in ObsidianResponses :
        /\ subs[i].obsidian.st = "pending"
        /\ Settle(i, [subs[i] EXCEPT
                        !.obsidian = Settled(@, ObsidianSendOutcome(resp, subs[i].fileName))])

\* --------------------------------------------------------- test connection
\* updateStatus(result.message, result.success ? 'success' : 'error')
ShowTestResult(outcome) ==
    /\ statusMessage' = Status(outcome.message, IF outcome.success THEN "success" ELSE "error")
    /\ resultBox' = Hide(resultBox)

\* The operation of a test, for the event record: in the slot of its client.
TestOperation(kind, op) ==
    Submission(<<>>, FALSE, FALSE,
               IF kind = "Flomo" THEN op ELSE NotStarted,
               IF kind = "Flomo" THEN NotStarted ELSE op, <<>>)

\* A test handler run to its await; op is the temporary client's operation.
TestStart(kind, op) ==
    /\ IF op.st = "settled"
       THEN /\ ShowTestResult(op.outcome)
            /\ UNCHANGED tests
       ELSE /\ statusMessage' = Status(<<"Testing ", kind, " connection...">>, "loading")
            /\ resultBox' = Hide(resultBox)
            /\ tests' = Append(tests, [kind |-> kind, op |-> op])
    /\ ev' = Event("test", FALSE, TestOperation(kind, op))
    /\ events' = events + 1
    /\ UNCHANGED << memoContent, sendToFlomo, sendToObsidian, flomoUrlInput,
                    obsidianVaultInput, obsidianTokenInput, submitButton, config,
                    flomoAPI, obsidianAPI, storage, loadPc, saves, subs, uncaught >>

\* Mutant: the webhook test runs on the client used for submission.
TestFlomoClickSavedClient ==
    /\ events < MaxEvents
    /\ Len(tests) < MaxPending
    /\ TestStart("Flomo",
                 FlomoSendStart(FlomoAPI(IF IsNull(flomoAPI) THEN Undefined
                                         ELSE flomoAPI.api_url),
                                FlomoTestContent))

\* testFlomoConnection: FlomoAPI.testConnection sends the canned note.
TestFlomoClick ==
    /\ events < MaxEvents
    /\ Len(tests) < MaxPending
    /\ TestStart("Flomo", FlomoSendStart(FlomoAPI(Trim(flomoUrlInput)), FlomoTestContent))

\* testObsidianConnection
TestObsidianClick ==
    /\ events < MaxEvents
    /\ Len(tests) < MaxPending
    /\ TestStart("Obsidian",
                 ObsidianTestStart(ObsidianWriter(Trim(obsidianVaultInput),
                                                  Trim(obsidianTokenInput))))

\* The oldest pending test's fetch settles and its handler runs to its end.
TestSettle ==
    /\ tests # <<>>
    /\ LET t == Head(tests)
       IN \E resp \in (IF t.kind = "Flomo" THEN FlomoResponses ELSE ObsidianResponses) :
            LET outcome == IF t.kind = "Flomo"
                           THEN FlomoSendOutcome(resp)
                           ELSE ObsidianTestOutcome(resp, Port)
            IN /\ ShowTestResult(outcome)
               /\ ev' = Event("test-done", FALSE,
                              TestOperation(t.kind, Settled(t.op, outcome)))
    /\ tests' = Tail(tests)
    /\ UNCHANGED << memoContent, sendToFlomo, sendToObsidian, flomoUrlInput,
                    obsidianVaultInput, obsidianTokenInput, submitButton, config,
                    flomoAPI, obsidianAPI, storage, loadPc, saves, subs, uncaught,
                    events >>

\* ------------------------------------------------------------------- Spec
Next ==
    \/ LoadResolve
    \/ LoadReject
    \/ EditField
    \/ ToggleDestination
    \/ SaveResolve
    \/ SaveReject
    \/ TypeNote
    \/ ClickSubmit
    \/ CtrlEnter
    \/ FlomoSettle
    \/ ObsidianSettle
    \/ TestFlomoClick
    \/ TestObsidianClick
    \/ TestSettle

Spec == Init /\ [][Next]_vars

\* ===================================================================
\* The two clients on their own
\* ===================================================================
\* flomoAPI.js taken alone: one instance of each class, built from
\* constructor arguments drawn from the sets below, its methods called in any
\* order and their fetches settled in any order.  The popup's variables hold
\* their initial values; flomoUrlInput, obsidianVaultInput and
\* obsidianTokenInput hold the constructor arguments, tests the calls
\* suspended at their await, ev the last call or return.
ClientUrls == { <<>>, <<"u">> }
ClientVaults == { <<" ">>, <<" ", "x", " ">>, <<"w">> }
ClientTokens == { <<>>, <<"t">> }

\* The local times a call may read from new Date(): two in one second, one in
\* the next second, one with two-digit components.
Time(year, month, day, hours, minutes, seconds, ms) ==
    [year |-> year, month |-> month, day |-> day, hours |-> hours,
     minutes |-> minutes, seconds |-> seconds, ms |-> ms]
SendTimes ==
    { Time(2024, 0, 5, 9, 3, 7, 120),
      Time(2024, 0, 5, 9, 3, 7, 880),
      Time(2024, 0, 5, 9, 3, 8, 0),
      Time(2024, 11, 25, 23, 59, 59, 999) }
NoTime == Time(0, 0, 0, 0, 0, 0, 0)

\* What the webhook may answer: success, a failure with each kind of body, a
\* second failure status, no answer.
WebhookResponses ==
    { Response(200, <<"OK">>, "json-plain"),
      Response(500, <<"Internal Server Error">>, "json-message"),
      Response(500, <<"Internal Server Error">>, "json-plain"),
      Response(500, <<"Internal Server Error">>, "json-null"),
      Response(500, <<"Internal Server Error">>, "text"),
      Response(429, <<"Too Many Requests">>, "unreadable"),
      FetchError }

\* What the local REST server may answer to the probe.
ProbeResponses ==
    { Response(200, <<"OK">>, "text"),
      Response(204, <<"No Content">>, "text"),
      Response(401, <<"Unauthorized">>, "text"),
      Response(403, <<"Forbidden">>, "text"),
      Response(404, <<"Not Found">>, "text"),
      Response(500, <<"Internal Server Error">>, "text"),
      FetchError }

NoResponse == [kind |-> "none", ok |-> FALSE, status |-> 0, statusText |-> <<>>,
               body |-> "none", error |-> <<>>]

\* A method call: the operation, the time it read and the filename it made.
Call(method, op, at, fileName) ==
    [method |-> method, op |-> op, at |-> at, fileName |-> fileName]

\* The last step: a call that suspended ("call") or a call that returned
\* ("return") after resp.
ClientEvent(kind, call, resp) == [kind |-> kind, call |-> call, resp |-> resp]

ClientInit ==
    /\ memoContent = <<>>
    /\ sendToFlomo = TRUE
    /\ sendToObsidian = FALSE
    /\ flomoUrlInput \in ClientUrls
    /\ obsidianVaultInput \in ClientVaults
    /\ obsidianTokenInput \in ClientTokens
    /\ submitButton = [disabled |-> FALSE, text |-> <<"Submit">>]
    /\ statusMessage = Status(<<>>, "info")
    /\ resultBox = [hidden |-> TRUE, blocks |-> <<>>]
    /\ config = EmptyObject
    /\ flomoAPI = FlomoAPI(flomoUrlInput)
    /\ obsidianAPI = ObsidianWriter(obsidianVaultInput, obsidianTokenInput)
    /\ storage = Absent
    /\ loadPc = "pending"
    /\ saves = <<>>
    /\ subs = <<>>
    /\ tests = <<>>
    /\ uncaught = FALSE
    /\ events = 0
    /\ ev = ClientEvent("init", Call("", NotStarted, NoTime, <<>>), NoResponse)

\* A method runs to its first await: it returns at once or suspends.
Invoke(call) ==
    /\ events' = events + 1
    /\ IF call.op.st = "settled"
       THEN /\ ev' = ClientEvent("return", call, NoResponse)
            /\ UNCHANGED tests
       ELSE /\ ev' = ClientEvent("call", call, NoResponse)
            /\ tests' = Append(tests, call)
    /\ UNCHANGED << memoContent, sendToFlomo, sendToObsidian, flomoUrlInput,
                    obsidianVaultInput, obsidianTokenInput, submitButton,
                    statusMessage, resultBox, config, flomoAPI, obsidianAPI,
                    storage, loadPc, saves, subs, uncaught >>

CallSendToFlomo ==
    /\ events < MaxEvents
    /\ Len(tests) < MaxInFlight
    /\ Invoke(Call("sendToFlomo", FlomoSendStart(flomoAPI, <<"a">>), NoTime, <<>>))

CallSendToObsidian ==
    /\ events < MaxEvents
    /\ Len(tests) < MaxInFlight
    /\ \E now \in SendTimes :
          LET op == ObsidianSendStart(obsidianAPI, <<"a">>, now)
          IN Invoke(Call("sendToObsidian", op, now,
                         IF op.st = "pending" THEN generateFileName(now) ELSE <<>>))

CallTestConnection ==
    /\ events < MaxEvents
    /\ Len(tests) < MaxInFlight
    /\ Invoke(Call("testConnection", ObsidianTestStart(obsidianAPI), NoTime, <<>>))

\* The fetch of a suspended call settles and the method runs to its return.
Return(i, resp, outcome) ==
    /\ ev' = ClientEvent("return", [tests[i] EXCEPT !.op = Settled(@, outcome)], resp)
    /\ tests' = SubSeq(tests, 1, i - 1) \o SubSeq(tests, i + 1, Len(tests))
    /\ UNCHANGED << memoContent, sendToFlomo, sendToObsidian, flomoUrlInput,
                    obsidianVaultInput, obsidianTokenInput, submitButton,
                    statusMessage, resultBox, config, flomoAPI, obsidianAPI,
                    storage, loadPc, saves, subs, uncaught, events >>

ReturnSendToFlomo ==
    \E i \in 1..Len(tests), resp \in WebhookResponses :
        /\ tests[i].method = "sendToFlomo"
        /\ Return(i, resp, FlomoSendOutcome(resp))

ReturnSendToObsidian ==
    \E i \in 1..Len(tests), resp \in ObsidianResponses :
        /\ tests[i].method = "sendToObsidian"
        /\ Return(i, resp, ObsidianSendOutcome(resp, tests[i].fileName))

ReturnTestConnection ==
    \E i \in 1..Len(tests), resp \in ProbeResponses :
        /\ tests[i].method = "testConnection"
        /\ Return(i, resp, ObsidianTestOutcome(resp, obsidianAPI.port))

ClientNext ==
    \/ CallSendToFlomo
    \/ CallSendToObsidian
    \/ CallTestConnection
    \/ ReturnSendToFlomo
    \/ ReturnSendToObsidian
    \/ ReturnTestConnection

ClientSpec == ClientInit /\ [][ClientNext]_vars

\* ===================================================================
\* Startup on its own
\* ===================================================================
\* loadConfigAndSetup over what storage may hold under 'config' when the
\* record was not written by this saveConfig: nothing, or a record with any
\* of the five fields absent.
Field(k, values) == { EmptyObject } \cup { k :> v : v \in values }

PersistedRecords ==
    { Absent }
    \cup { a @@ b @@ c @@ d @@ e :
             a \in Field("flomoUrl", { <<>>, <<"u">> }),
             b \in Field("obsidianVault", { <<>>, <<"w">> }),
             c \in Field("obsidianToken", { <<>>, <<"t">> }),
             d \in Field("sendToFlomo", BOOLEAN),
             e \in Field("sendToObsidian", BOOLEAN) }

LoadInit ==
    /\ memoContent = <<>>
    /\ sendToFlomo \in BOOLEAN
    /\ sendToObsidian \in BOOLEAN
    /\ flomoUrlInput = <<>>
    /\ obsidianVaultInput = <<>>
    /\ obsidianTokenInput = <<>>
    /\ submitButton = [disabled |-> FALSE, text |-> <<"Submit">>]
    /\ statusMessage = Status(<<>>, "info")
    /\ resultBox = [hidden |-> TRUE, blocks |-> <<>>]
    /\ config = EmptyObject
    /\ flomoAPI = Null
    /\ obsidianAPI = Null
    /\ storage \in PersistedRecords
    /\ loadPc = "pending"
    /\ saves = <<>>
    /\ subs = <<>>
    /\ tests = <<>>
    /\ uncaught = FALSE
    /\ events = 0
    /\ ev = Event("init", FALSE, NoSubmission)

LoadNext ==
    \/ LoadResolve
    \/ LoadReject

LoadSpec == LoadInit /\ [][LoadNext]_vars

\* ===================================================================
\* Properties
\* ===================================================================
\* The last step was a submit trigger that passed validation.
Dispatched == ev.trigger /\ ev.kind \in {"started", "completed", "threw"}
\* The last step ended a submission: its report is on display.
Completed == ev.kind = "completed"

\* Every submission the properties can see: those in flight and the one the
\* last step dispatched or completed.
Seen ==
    { subs[i] : i \in 1..Len(subs) }
    \cup (IF ev.kind \in {"started", "completed", "threw"} THEN {ev.sub} ELSE {})

One(b) == IF b THEN 1 ELSE 0

\* C1 (as stated, for the triggers whose handler reaches Promise.all): the
\* submission issues exactly one request to each selected destination and none
\* to each unselected one.
C1_OneRequestPerSelected ==
    (ev.trigger /\ ev.kind \in {"started", "completed"}) =>
        /\ ev.sub.flomo.fetches = One(ev.sub.toFlomo)
        /\ ev.sub.obsidian.fetches = One(ev.sub.toObsidian)

\* C1 (amended): a submission issues exactly one request to each selected
\* destination whose client exists and holds its required configuration (a
\* non-empty URL; a non-empty vault name and token), and none to any other
\* destination; no submission ever holds more than one request per destination.
C1_OneRequestPerConfiguredSelected ==
    /\ Dispatched =>
        /\ ev.sub.flomo.fetches =
              One(ev.sub.toFlomo /\ ~IsNull(flomoAPI) /\ flomoAPI.api_url \notin {<<>>, Undefined})
        /\ ev.sub.obsidian.fetches =
              One(ev.sub.toObsidian /\ ~IsNull(obsidianAPI)
                  /\ obsidianAPI.vaultName # <<>>
                  /\ obsidianAPI.apiToken \notin {<<>>, Undefined})
    /\ \A sub \in Seen :
        /\ sub.flomo.fetches <= One(sub.toFlomo)
        /\ sub.obsidian.fetches <= One(sub.toObsidian)

\* C1 witness: both destinations selected, the webhook configured and the
\* local REST client not: one request to the first, none to the second.
C1_Witness ==
    /\ Dispatched
    /\ ev.sub.toFlomo /\ ev.sub.toObsidian
    /\ ev.sub.flomo.fetches = 1 /\ ev.sub.flomo.req.method = "POST"
    /\ ev.sub.obsidian.fetches = 0 /\ ev.sub.obsidian.st = "settled"

\* Some outcome of the submission is a failure.
SomeFailure(sub) ==
    \/ sub.toFlomo /\ ~sub.flomo.outcome.success
    \/ sub.toObsidian /\ ~sub.obsidian.outcome.success

\* C2: when a submission completes, the note input is cleared if and only if
\* no outcome is a failure; with a failure the input is left exactly as it was.
C2_ClearedIffNoFailure ==
    [][ ev'.kind = "completed" =>
            memoContent' = IF SomeFailure(ev'.sub) THEN memoContent ELSE <<>> ]_vars

\* C2 witness: a mixed result has completed and the input still holds text.
C2_Witness ==
    /\ Completed
    /\ ev.sub.toFlomo /\ ev.sub.toObsidian
    /\ ev.sub.flomo.outcome.success /\ ~ev.sub.obsidian.outcome.success
    /\ memoContent # <<>>

\* C3 (as stated): while a submission is in flight no submit trigger, click or
\* Ctrl+Enter, starts another submission or issues a request.
C3_NoTriggerWhileInFlight ==
    [][ subs # <<>> => ~(ev'.trigger /\ ev'.kind \in {"started", "completed", "threw"}) ]_vars

\* C4 (as stated): a submission that passed validation is in flight until its
\* requests settle and then completes with the result displayed and the button
\* enabled unless no destination is selected; none is abandoned, whenever the
\* trigger arrives relative to startup loading.
C4_ValidatedSubmissionCompletes ==
    /\ Dispatched =>
          \/ ev.kind = "completed"
          \/ ev.kind = "started" /\ ev.sub \in { subs[i] : i \in 1..Len(subs) }
    /\ statusMessage.text = <<"Submitting...">> => subs # <<>>
    /\ Completed =>
          /\ ~resultBox.hidden
          /\ submitButton.disabled = (~sendToFlomo /\ ~sendToObsidian)

\* The operation of the last step ran on a client without its configuration.
FlomoUnconfigured ==
    \/ Dispatched /\ ev.kind # "threw" /\ ev.sub.toFlomo
          /\ flomoAPI.api_url \in {<<>>, Undefined}
    \/ ev.kind = "test" /\ ev.sub.flomo.st # "none" /\ Trim(flomoUrlInput) = <<>>
ObsidianUnconfigured ==
    \/ Dispatched /\ ev.kind # "threw" /\ ev.sub.toObsidian
          /\ (obsidianAPI.vaultName = <<>> \/ obsidianAPI.apiToken \in {<<>>, Undefined})
    \/ ev.kind = "test" /\ ev.sub.obsidian.st # "none"
          /\ (Trim(obsidianVaultInput) = <<>> \/ Trim(obsidianTokenInput) = <<>>)

FailedWithoutRequest(op) ==
    /\ op.st = "settled"
    /\ ~op.outcome.success
    /\ op.outcome.message # <<>>
    /\ op.fetches = 0
    /\ op.req = NoRequest

\* C5: a client operation whose required configuration is missing (the webhook
\* send and test without a URL, the local REST send and probe without a vault
\* name or token) returns a failure outcome and issues no request.
C5_MissingConfigurationNoRequest ==
    /\ FlomoUnconfigured => FailedWithoutRequest(ev.sub.flomo)
    /\ ObsidianUnconfigured => FailedWithoutRequest(ev.sub.obsidian)

\* C5 witness: a submission to both destinations, neither configured, has
\* returned two failures; no request was made.
C5_Witness ==
    /\ Dispatched /\ ev.sub.toFlomo /\ ev.sub.toObsidian
    /\ FlomoUnconfigured /\ ObsidianUnconfigured
    /\ FailedWithoutRequest(ev.sub.flomo) /\ FailedWithoutRequest(ev.sub.obsidian)
    /\ subs = <<>>

\* The requests a submission holds carry its note.
CarriesNote(sub) ==
    /\ sub.flomo.fetches > 0 => sub.flomo.req.content = sub.content
    /\ sub.obsidian.fetches > 0 => sub.obsidian.req.content = sub.content

\* C6: a trigger on an empty or whitespace-only input issues no request, starts
\* no submission, leaves input and button alone and reports EmptyContent; every
\* note dispatched is the non-empty trimmed input of the trigger, the same for
\* both destinations.
C6_EmptyContentRefused ==
    [][ ev'.trigger =>
          /\ (Trim(memoContent) = <<>>) <=> (ev'.kind = "refused-empty")
          /\ ev'.kind = "refused-empty" =>
                /\ subs' = subs
                /\ ev'.sub = NoSubmission
                /\ memoContent' = memoContent
                /\ submitButton' = submitButton
                /\ statusMessage' = Status(<<"Note content cannot be empty.">>, "error")
          /\ ev'.kind \in {"started", "completed", "threw"} =>
                /\ ev'.sub.content = Trim(memoContent)
                /\ ev'.sub.content # <<>>
                /\ CarriesNote(ev'.sub)
                /\ \A i \in 1..Len(subs') : CarriesNote(subs'[i]) /\ subs'[i].content # <<>>
      ]_vars

\* C6 witness: a whitespace-only input was refused.
C6_Witness ==
    /\ ev.kind = "refused-empty"
    /\ memoContent = <<" ">>
    /\ statusMessage.text = <<"Note content cannot be empty.">>

\* C7: a trigger with content but no destination selected issues no request,
\* starts no submission, leaves the input alone and reports
\* NoDestinationSelected.
C7_NoDestinationRefused ==
    [][ ev'.trigger =>
          /\ (Trim(memoContent) # <<>> /\ ~sendToFlomo /\ ~sendToObsidian)
                <=> (ev'.kind = "refused-destination")
          /\ ev'.kind = "refused-destination" =>
                /\ subs' = subs
                /\ ev'.sub = NoSubmission
                /\ memoContent' = memoContent
                /\ submitButton' = submitButton
                /\ statusMessage' =
                      Status(<<"Please select a destination (Flomo or Obsidian).">>, "error")
      ]_vars

\* C7 witness: a note was refused for want of a destination.
C7_Witness ==
    /\ ev.kind = "refused-destination"
    /\ Trim(memoContent) # <<>>
    /\ ~sendToFlomo /\ ~sendToObsidian

\* The messages of the selected destinations with the given success flag, in
\* dispatch order.
Reported(sub, wanted) ==
    (IF sub.toFlomo /\ sub.flomo.outcome.success = wanted
     THEN <<sub.flomo.outcome.message>> ELSE <<>>)
    \o (IF sub.toObsidian /\ sub.obsidian.outcome.success = wanted
        THEN <<sub.obsidian.outcome.message>> ELSE <<>>)

\* The messages the result box shows in its blocks of the given class.
Shown(class) ==
    LET F[i \in 0..Len(resultBox.blocks)] ==
            IF i = 0 THEN <<>>
            ELSE IF resultBox.blocks[i].class = class
                 THEN F[i - 1] \o resultBox.blocks[i].messages
                 ELSE F[i - 1]
    IN F[Len(resultBox.blocks)]

\* C8: the fan-out is a join barrier without short-circuit: a submission that
\* waits has started every selected operation; a failure of one operation
\* neither ends the wait for the other nor hides its outcome; the result is
\* displayed only when every started operation has settled.
C8_JoinBarrier ==
    /\ \A i \in 1..Len(subs) :
          /\ subs[i].toFlomo => subs[i].flomo.st \in {"pending", "settled"}
          /\ subs[i].toObsidian => subs[i].obsidian.st \in {"pending", "settled"}
          /\ subs[i].flomo.st = "pending" \/ subs[i].obsidian.st = "pending"
    /\ Completed =>
          /\ ev.sub.toFlomo => ev.sub.flomo.st = "settled"
          /\ ev.sub.toObsidian => ev.sub.obsidian.st = "settled"
          /\ ev.sub.flomo.st # "pending" /\ ev.sub.obsidian.st # "pending"
          /\ Len(Shown("success")) + Len(Shown("error"))
                = One(ev.sub.toFlomo) + One(ev.sub.toObsidian)

\* C8 witness: both destinations were selected, the webhook send failed on
\* the network and the local REST send settled after it and succeeded.
C8_Witness ==
    /\ Completed /\ ~ev.trigger
    /\ ev.sub.toFlomo /\ ev.sub.toObsidian
    /\ ev.sub.flomo.fetches = 1 /\ ~ev.sub.flomo.outcome.success
    /\ ev.sub.obsidian.fetches = 1 /\ ev.sub.obsidian.outcome.success
    /\ Len(resultBox.blocks) = 2

\* C9: the report of a completed submission holds exactly one message per
\* selected destination, each in one block: the success block is rendered iff
\* some outcome succeeded and lists every success message, the failure block
\* iff some outcome failed and lists every failure message; a mixed result
\* renders both.
C9_Report ==
    Completed =>
        /\ ~resultBox.hidden
        /\ Shown("success") = Reported(ev.sub, TRUE)
        /\ Shown("error") = Reported(ev.sub, FALSE)
        /\ Len(Shown("success")) + Len(Shown("error"))
              = One(ev.sub.toFlomo) + One(ev.sub.toObsidian)
        /\ \A i \in 1..Len(resultBox.blocks) :
              /\ resultBox.blocks[i].class \in {"success", "error"}
              /\ resultBox.blocks[i].messages # <<>>
              /\ \A j \in 1..Len(resultBox.blocks) :
                    resultBox.blocks[i].class = resultBox.blocks[j].class => i = j
        /\ (\E i \in 1..Len(resultBox.blocks) : resultBox.blocks[i].class = "success")
              <=> Reported(ev.sub, TRUE) # <<>>
        /\ (\E i \in 1..Len(resultBox.blocks) : resultBox.blocks[i].class = "error")
              <=> Reported(ev.sub, FALSE) # <<>>

\* C9 witness: the webhook succeeded and the local REST server answered 404;
\* both blocks are on display.
C9_Witness ==
    /\ Completed
    /\ ev.sub.flomo.outcome = Outcome(TRUE, <<"Note sent to Flomo successfully.">>)
    /\ ev.sub.obsidian.outcome.message
          = <<"Failed to create note in Obsidian. HTTP ", "404", ": ", "raw text">>
    /\ ~resultBox.hidden
    /\ Len(resultBox.blocks) = 2

\* C10 (as stated): every client operation resolves to {success, message} and
\* no handler ends with an uncaught exception or a rejected promise.
C10_NoUncaughtFailure ==
    /\ ~uncaught
    /\ \A sub \in Seen \cup (IF ev.kind \in {"test", "test-done"} THEN {ev.sub} ELSE {}) :
          /\ sub.flomo.st = "settled" => sub.flomo.outcome.message # <<>>
          /\ sub.obsidian.st = "settled" => sub.obsidian.outcome.message # <<>>

\* ------------------------------------------------- the clients on their own
\* A method of the given name has just returned after its fetch settled.
HasReturned(method) ==
    ev.kind = "return" /\ ev.call.method = method /\ ev.resp.kind # "none"

\* The message holds the fragment.
Carries(message, fragment) == \E i \in 1..Len(message) : message[i] = fragment

UnauthorizedMessage == <<"Connection failed: Unauthorized. Check your API Token.">>
EndpointNotFoundMessage ==
    <<"Connection failed: Not Found. Check if the 'Local REST API' plugin is enabled in Obsidian.">>

\* C11: the probe maps a success status to Success, 401 to the Unauthorized
\* failure, 404 to the EndpointNotFound failure, every other non-success status
\* to a generic failure carrying the status, and a network-level failure to a
\* failure naming the port; the 401, 404 and generic messages are pairwise
\* distinct.
C11_ProbeOutcomes ==
    HasReturned("testConnection") =>
        LET resp == ev.resp
            outcome == ev.call.op.outcome
            success == resp.kind = "response" /\ resp.status >= 200 /\ resp.status <= 299
        IN /\ success => outcome = Outcome(TRUE, <<"Obsidian API connection successful.">>)
           /\ (resp.kind = "response" /\ resp.status = 401) =>
                 outcome = Outcome(FALSE, UnauthorizedMessage)
           /\ (resp.kind = "response" /\ resp.status = 404) =>
                 outcome = Outcome(FALSE, EndpointNotFoundMessage)
           /\ (resp.kind = "response" /\ ~success /\ resp.status \notin {401, 404}) =>
                 /\ ~outcome.success
                 /\ Carries(outcome.message, ToString(resp.status))
                 /\ outcome.message \notin {UnauthorizedMessage, EndpointNotFoundMessage}
           /\ resp.kind = "error" =>
                 /\ ~outcome.success
                 /\ Carries(outcome.message, "27123")
                 /\ outcome.message[1]
                       = "Network error. Is Obsidian running and the API plugin enabled on port "
           /\ UnauthorizedMessage # EndpointNotFoundMessage

\* C11 witness: the probe was answered 403 and returned the generic failure
\* with that status.
C11_Witness ==
    /\ HasReturned("testConnection")
    /\ ev.resp.status = 403
    /\ ev.call.op.req.method = "HEAD"
    /\ ev.call.op.outcome
          = Outcome(FALSE, <<"Obsidian API connection failed. HTTP ", "403", ": ", "Forbidden">>)


\* C12 (as stated): a webhook send answered with a non-success status returns
\* a failure whose message carries the message field of the JSON body, or the
\* status code when the body cannot be parsed as JSON; for every kind of body
\* (unparseable, JSON with a message field, JSON without one) the message
\* carries one of the two.
C12_FailureDetail ==
    (HasReturned("sendToFlomo") /\ ev.resp.kind = "response"
        /\ ~(ev.resp.status >= 200 /\ ev.resp.status <= 299)) =>
        LET message == ev.call.op.outcome.message
        IN /\ ~ev.call.op.outcome.success
           /\ ev.resp.body = "json-message" => Carries(message, "m")
           /\ ev.resp.body \in {"text", "unreadable"} =>
                 Carries(message, ToString(ev.resp.status))
           /\ Carries(message, "m") \/ Carries(message, ToString(ev.resp.status))

\* ------------------------------------------------------------ the popup
\* What a submission fixed at its trigger: note, destinations, requests.
SameSnapshot(a, b) ==
    /\ a.content = b.content
    /\ a.toFlomo = b.toFlomo /\ a.toObsidian = b.toObsidian
    /\ a.flomo.fetches = b.flomo.fetches /\ a.flomo.req = b.flomo.req
    /\ a.obsidian.fetches = b.obsidian.fetches /\ a.obsidian.req = b.obsidian.req
    /\ a.fileName = b.fileName

\* C13: a submission is a snapshot of its trigger: its destinations are the
\* checkboxes of that moment and its requests carry the URL, vault name and
\* token of the client instances of that moment; no later step (edit, save,
\* toggle) changes the requests or destinations of a submission in flight,
\* and it completes with one outcome per destination it was started with.
C13_Snapshot ==
    [][ /\ (ev'.trigger /\ ev'.kind \in {"started", "completed", "threw"}) =>
              /\ ev'.sub.toFlomo = sendToFlomo
              /\ ev'.sub.toObsidian = sendToObsidian
              /\ ev'.sub.flomo.fetches = 1 =>
                    ev'.sub.flomo.req.url = flomoAPI.api_url
              /\ ev'.sub.obsidian.fetches = 1 =>
                    /\ ev'.sub.obsidian.req.path
                          = obsidianAPI.vaultName \o <<"/">> \o ev'.sub.fileName
                    /\ ev'.sub.obsidian.req.auth = <<"Bearer ">> \o obsidianAPI.apiToken
        /\ \A i \in 1..Len(subs) :
              \/ \E j \in 1..Len(subs') : SameSnapshot(subs[i], subs'[j])
              \/ /\ ev'.kind = "completed" /\ ~ev'.trigger
                 /\ SameSnapshot(subs[i], ev'.sub)
                 /\ Shown("success")' = Reported(ev'.sub, TRUE)
                 /\ Shown("error")' = Reported(ev'.sub, FALSE)
                 /\ Len(Shown("success")') + Len(Shown("error")')
                       = One(subs[i].toFlomo) + One(subs[i].toObsidian)
      ]_vars

\* C13 witness: a submission to the webhook has completed with its request to
\* the URL of its trigger, after the URL was edited and saved during its
\* flight.
C13_Witness ==
    /\ Completed /\ ~ev.trigger
    /\ ev.sub.toFlomo /\ ev.sub.flomo.fetches = 1
    /\ ev.sub.flomo.req.url = <<"u">>
    /\ flomoAPI.api_url = <<>>
    /\ ~resultBox.hidden

\* The record of the five inputs as they are now, strings trimmed.
CurrentValues ==
    ConfigFromInputs(flomoUrlInput, obsidianVaultInput, obsidianTokenInput,
                     sendToFlomo, sendToObsidian)

\* The step is a change event of a settings field or destination checkbox.
Changes ==
    /\ events' = events + 1
    /\ << flomoUrlInput, obsidianVaultInput, obsidianTokenInput, sendToFlomo,
          sendToObsidian >>'
          # << flomoUrlInput, obsidianVaultInput, obsidianTokenInput, sendToFlomo,
               sendToObsidian >>

\* The step settles the last pending write, successfully.
LastWriteSucceeds ==
    /\ saves # <<>> /\ saves' = <<>>
    /\ statusMessage' = Status(<<"Settings saved!">>, "success")

\* C14 (as stated): every change replaces state.config with the five current
\* values, strings trimmed, and hands that record to storage; when the last
\* pending write has succeeded, the persisted record equals state.config and
\* the current values.
C14_PersistedEqualsCurrent ==
    [][ /\ Changes => /\ config' = CurrentValues'
                      /\ saves' = Append(saves, CurrentValues')
        /\ LastWriteSucceeds => /\ storage' = config'
                                /\ storage' = CurrentValues'
      ]_vars

\* ------------------------------------------------- the clients on their own
\* The local REST sends that are suspended at their fetch.
PendingSends == { i \in 1..Len(tests) : tests[i].method = "sendToObsidian" }

\* Two times in the same wall-clock second.
SameSecond(a, b) ==
    /\ a.year = b.year /\ a.month = b.month /\ a.day = b.day
    /\ a.hours = b.hours /\ a.minutes = b.minutes /\ a.seconds = b.seconds

\* n as two decimal digits.
TwoDigits(n) == IF n <= 9 THEN <<"0", ToString(n)>> ELSE <<ToString(n)>>

\* YYYY-MM-DD_HH-mm-ss.md of a local time.
Stamp(t) ==
    <<ToString(t.year), "-">> \o TwoDigits(t.month + 1) \o <<"-">> \o TwoDigits(t.day)
        \o <<"_">> \o TwoDigits(t.hours) \o <<"-">> \o TwoDigits(t.minutes)
        \o <<"-">> \o TwoDigits(t.seconds) \o <<".md">>

Occurrences(text, part) ==
    Cardinality({ k \in 1..(Len(text) + 1 - Len(part)) :
                    SubSeq(text, k, k + Len(part) - 1) = part })

\* C16: in every local REST send request the vault name appears exactly once:
\* the body path is the trimmed vault name, a slash and the filename, and the
\* URL is <base>/notes whatever the vault name.
C16_VaultNameOnce ==
    \A i \in PendingSends :
        LET req == tests[i].op.req
            vault == Trim(obsidianVaultInput)
        IN /\ vault # <<>>
           /\ req.path = vault \o <<"/">> \o tests[i].fileName
           /\ Occurrences(req.path, vault) = 1
           /\ req.url = <<"http://127.0.0.1:", "27123", "/notes">>
           /\ Occurrences(req.url, vault) = 0

\* C16 witness: a send of a client constructed with ' x ' is pending with
\* path x/2024-12-25_23-59-59.md.
C16_Witness ==
    \E i \in PendingSends :
        /\ obsidianVaultInput = <<" ", "x", " ">>
        /\ tests[i].op.req.path
              = <<"x", "/", "2024", "-", "12", "-", "25", "_", "23", "-", "59", "-",
                  "59", ".md">>
        /\ tests[i].op.req.url = <<"http://127.0.0.1:", "27123", "/notes">>

\* ------------------------------------------------------------ the popup
\* C17: once loadConfigAndSetup has run to its end, whenever no submission is
\* in flight the submit button is disabled iff neither destination is
\* selected, and its label is that of the current selection.
C17_ButtonFollowsSelection ==
    (loadPc = "done" /\ subs = <<>>) =>
        /\ submitButton.disabled <=> (~sendToFlomo /\ ~sendToObsidian)
        /\ (sendToFlomo /\ sendToObsidian) => submitButton.text = <<"Submit to Both">>
        /\ (sendToFlomo /\ ~sendToObsidian) => submitButton.text = <<"Submit to Flomo">>
        /\ (~sendToFlomo /\ sendToObsidian) => submitButton.text = <<"Submit to Obsidian">>

\* C17 witness: a submission to both destinations has completed after the
\* second destination was deselected during its flight; the button is enabled
\* and says 'Submit to Flomo'.
C17_Witness ==
    /\ loadPc = "done" /\ subs = <<>>
    /\ Completed /\ ~ev.trigger
    /\ ev.sub.toFlomo /\ ev.sub.toObsidian
    /\ sendToFlomo /\ ~sendToObsidian
    /\ submitButton = [disabled |-> FALSE, text |-> <<"Submit to Flomo">>]

\* ------------------------------------------------------- startup on its own
\* C18: loading a persisted configuration in which a field is absent yields
\* the defaults (webhook flag true, local REST flag false, the three strings
\* empty); a flag that is present keeps its stored value, a stored false for
\* the webhook flag included.
C18_LoadDefaults ==
    loadPc = "done" =>
        /\ "sendToFlomo" \notin DOMAIN storage => sendToFlomo = TRUE
        /\ "sendToObsidian" \notin DOMAIN storage => sendToObsidian = FALSE
        /\ "flomoUrl" \notin DOMAIN storage => flomoUrlInput = <<>>
        /\ "obsidianVault" \notin DOMAIN storage => obsidianVaultInput = <<>>
        /\ "obsidianToken" \notin DOMAIN storage => obsidianTokenInput = <<>>
        /\ "sendToFlomo" \in DOMAIN storage => sendToFlomo = storage.sendToFlomo
        /\ "sendToObsidian" \in DOMAIN storage => sendToObsidian = storage.sendToObsidian

\* C18 witness: a record holding only sendToFlomo: false and a vault name was
\* loaded: the webhook flag is false, the local REST flag false, URL and
\* token empty.
C18_Witness ==
    /\ loadPc = "done"
    /\ DOMAIN storage = {"sendToFlomo", "obsidianVault"}
    /\ storage.sendToFlomo = FALSE
    /\ sendToFlomo = FALSE /\ sendToObsidian = FALSE
    /\ flomoUrlInput = <<>> /\ obsidianTokenInput = <<>>
    /\ obsidianVaultInput = <<"w">>
    /\ submitButton.disabled

\* ------------------------------------------------------------ the popup
\* C19 (as stated, for the states after a completed load): whenever no save
\* is in flight the clients are the ones built from state.config: the webhook
\* client's URL is config.flomoUrl, the local REST client's vault name and
\* token are config.obsidianVault and config.obsidianToken; a save whose write
\* failed included.
C19_ClientsFromConfig ==
    (loadPc = "done" /\ saves = <<>>) =>
        /\ flomoAPI = FlomoAPI(Prop(config, "flomoUrl"))
        /\ obsidianAPI = ObsidianWriter(Prop(config, "obsidianVault"),
                                        Prop(config, "obsidianToken"))

\* C20: when every outcome of a submission succeeds, completion empties the
\* note input whatever it holds at that moment: text entered or changed during
\* the flight is cleared with the submitted text, and was never sent.
C20_ClearedWhateverTheInput ==
    (Completed /\ ~SomeFailure(ev.sub)) =>
        /\ memoContent = <<>>
        /\ CarriesNote(ev.sub)
        /\ Trim(ev.memo) # ev.sub.content =>
              /\ ev.sub.flomo.fetches > 0 => ev.sub.flomo.req.content # Trim(ev.memo)
              /\ ev.sub.obsidian.fetches > 0 =>
                    ev.sub.obsidian.req.content # Trim(ev.memo)

\* C20 witness: note 'a' was sent and succeeded; when it completed the input
\* held ' b', typed during the flight, and is now empty.
C20_Witness ==
    /\ Completed /\ ~ev.trigger /\ ~SomeFailure(ev.sub)
    /\ ev.sub.content = <<"a">>
    /\ ev.memo = <<" ", "b">>
    /\ memoContent = <<>>

\* C21: a test-connection operation runs on a temporary client built from the
\* current (trimmed) values of the settings fields, and neither its start nor
\* its end, whatever the outcome, changes state.config, the persisted record,
\* the clients used for submission, the note input or the submit button's
\* enabled state.
C21_TestLeavesStateAlone ==
    [][ ev'.kind \in {"test", "test-done"} =>
          /\ config' = config
          /\ storage' = storage
          /\ flomoAPI' = flomoAPI
          /\ obsidianAPI' = obsidianAPI
          /\ memoContent' = memoContent
          /\ submitButton'.disabled = submitButton.disabled
          /\ (ev'.kind = "test" /\ ev'.sub.flomo.st # "none") =>
                /\ ev'.sub.flomo.fetches = One(Trim(flomoUrlInput) # <<>>)
                /\ ev'.sub.flomo.fetches = 1 =>
                      ev'.sub.flomo.req.url = Trim(flomoUrlInput)
          /\ (ev'.kind = "test" /\ ev'.sub.obsidian.st # "none") =>
                /\ ev'.sub.obsidian.fetches
                      = One(Trim(obsidianVaultInput) # <<>> /\ Trim(obsidianTokenInput) # <<>>)
                /\ ev'.sub.obsidian.fetches = 1 =>
                      /\ ev'.sub.obsidian.req.method = "HEAD"
                      /\ ev'.sub.obsidian.req.auth
                            = <<"Bearer ">> \o Trim(obsidianTokenInput)
      ]_vars

\* C21 witness: a webhook test to the URL typed into the field has ended
\* while that URL is neither persisted nor in the client used for submission,
\* and a note is waiting in the input.
C21_Witness ==
    /\ ev.kind = "test-done"
    /\ ev.sub.flomo.fetches = 1
    /\ ev.sub.flomo.req.url = <<"v">>
    /\ flomoUrlInput = <<" ", "v">>
    /\ storage = Absent
    /\ ~IsNull(flomoAPI) /\ flomoAPI.api_url # <<"v">>
    /\ memoContent = <<"a">>

====
